---- MODULE Spec2Model ----
(***************************************************************************)
(* Turn-sequencing engine of one poker hand: the useHandFlow hook          *)
(* (components/hand/useHandFlow.ts).  The hook keeps four pieces of React  *)
(* state: `state` (HandFlowState), `history` (undo stack of states),       *)
(* `preflopOrder` and `currentStraddle`.  Every exported callback is one   *)
(* action below; calls are serialized (one call per render), so inside a   *)
(* callback the captured `state` and the updater's `prev` are the same.    *)
(*                                                                         *)
(* Seats are identified by their seat index: 0 = button, 1 = small blind,  *)
(* 2 = big blind, 3.. = the remaining seats.  `boards` and updateBoard are *)
(* left out: no transition of the engine reads them.                       *)
(***************************************************************************)
EXTENDS Integers, Sequences, FiniteSets, TLC

VARIABLES
    playerIds,        \* session.players.map(p => p.id), fixed for the hand
    stack,            \* session.players[i].stack (one value for every seat)
    state,            \* HandFlowState
    history,          \* HandFlowState[]
    preflopOrder,     \* string[]
    currentStraddle,  \* number
    probe             \* inputs/outputs of the pure order builders (SpecOrder)

vars == <<playerIds, stack, state, history, preflopOrder, currentStraddle, probe>>

----------------------------------------------------------------------------
(* Bounds of the model *)

MinSeats == 2
MaxSeats == 3
StraddleSeats == 4
MaxAmount == 3
MaxAllIn == 1
MaxAggr == 2
MaxCalls == 7
MaxApiCalls == 3
MaxApiAmount == 1
MaxBatchCalls == 6
StackSize == 4
SmallBlind == 1
BigBlind == 2
MaxOrderSeats == 9

Null == -1
NoAmount == 0

Amounts == 1..MaxAmount

AllInAmounts == {NoAmount} \cup 1..MaxAllIn

----------------------------------------------------------------------------
(* Array helpers with JavaScript's 0-based indices *)

At(s, i) == IF i >= 0 /\ i < Len(s) THEN s[i + 1] ELSE Null

Includes(s, x) == \E k \in 1..Len(s) : s[k] = x

IndexOf(s, x) ==
    IF Includes(s, x)
    THEN (CHOOSE k \in 1..Len(s) : s[k] = x /\ \A j \in 1..(k - 1) : s[j] # x) - 1
    ELSE -1

Slice(s, from, to) == SubSeq(s, from + 1, to)

Last(s) == At(s, Len(s) - 1)

Range(s) == {s[k] : k \in 1..Len(s)}

Max(a, b) == IF a >= b THEN a ELSE b

Ids(k) == [i \in 1..k |-> i - 1]

----------------------------------------------------------------------------
(* Order builders *)

STREETS == <<"preflop", "flop", "turn", "river">>

StreetSet == Range(STREETS)

emptyStreets == [s \in StreetSet |-> <<>>]

(* buildPreflopOrder that starts the rotation one seat early *)
buildPreflopOrder_FromBigBlind(ids, straddle) ==
    LET count == Len(ids) IN
    IF count = 2 THEN <<ids[1], ids[2]>>
    ELSE SubSeq(ids, 3, count) \o <<ids[1], ids[2]>>

(* buildPreflopOrder that takes no notice of the straddle *)
buildPreflopOrder_StraddleIgnored(ids, straddle) ==
    LET count == Len(ids) IN
    IF count = 2 THEN <<ids[1], ids[2]>>
    ELSE SubSeq(ids, 4, count) \o <<ids[1], ids[2], ids[3]>>

buildPreflopOrder(ids, straddle) ==
    LET count == Len(ids) IN
    IF count = 2 THEN <<ids[1], ids[2]>>
    ELSE IF straddle > 0 /\ count > 3
         THEN SubSeq(ids, 5, count) \o <<ids[1], ids[2], ids[3], ids[4]>>
         ELSE SubSeq(ids, 4, count) \o <<ids[1], ids[2], ids[3]>>

(* buildPostflopOrder that never drops the button *)
buildPostflopOrder_KeepsButton(ids, foldedIds, allInIds) ==
    LET keep(id) == id \notin foldedIds /\ id \notin allInIds IN
    SelectSeq(SubSeq(ids, 2, Len(ids)), keep) \o <<ids[1]>>

buildPostflopOrder(ids, foldedIds, allInIds) ==
    LET keep(id) == id \notin foldedIds /\ id \notin allInIds IN
    SelectSeq(SubSeq(ids, 2, Len(ids)), keep)
        \o (IF keep(ids[1]) THEN <<ids[1]>> ELSE <<>>)

IsAggressive(type) == type \in {"bet", "raise", "allin"}

(* buildShowdownQueue that looks for the last aggressor on the river only *)
buildShowdownQueue_RiverOnly(streets, ids, foldedIds) ==
    LET active == buildPostflopOrder(ids, foldedIds, {})
        aggr == SelectSeq(streets["river"],
                          LAMBDA a : IsAggressive(a.type) /\ a.playerId \notin foldedIds)
        lastAggressor == IF aggr = <<>> THEN Null ELSE aggr[Len(aggr)].playerId
        idx == IndexOf(active, lastAggressor)
    IN  IF Len(active) <= 1 THEN active
        ELSE IF lastAggressor = Null \/ ~Includes(active, lastAggressor) THEN active
        ELSE Slice(active, idx, Len(active)) \o Slice(active, 0, idx)

(* buildShowdownQueue that queues the folded players as well *)
buildShowdownQueue_KeepsFolded(streets, ids, foldedIds) ==
    LET active == buildPostflopOrder(ids, {}, {})
        all == streets["preflop"] \o streets["flop"] \o streets["turn"] \o streets["river"]
        aggr == SelectSeq(all, LAMBDA a : IsAggressive(a.type) /\ a.playerId \notin foldedIds)
        lastAggressor == IF aggr = <<>> THEN Null ELSE aggr[Len(aggr)].playerId
        idx == IndexOf(active, lastAggressor)
    IN  IF Len(active) <= 1 THEN active
        ELSE IF lastAggressor = Null \/ ~Includes(active, lastAggressor) THEN active
        ELSE Slice(active, idx, Len(active)) \o Slice(active, 0, idx)

buildShowdownQueue(streets, ids, foldedIds) ==
    LET active == buildPostflopOrder(ids, foldedIds, {})
        all == streets["preflop"] \o streets["flop"] \o streets["turn"] \o streets["river"]
        aggr == SelectSeq(all, LAMBDA a : IsAggressive(a.type) /\ a.playerId \notin foldedIds)
        lastAggressor == IF aggr = <<>> THEN Null ELSE aggr[Len(aggr)].playerId
        idx == IndexOf(active, lastAggressor)
    IN  IF Len(active) <= 1 THEN active
        ELSE IF lastAggressor = Null \/ ~Includes(active, lastAggressor) THEN active
        ELSE Slice(active, idx, Len(active)) \o Slice(active, 0, idx)

----------------------------------------------------------------------------
(* Construction *)

(* initContributions that has the button post the small blind at every table *)
initContributions_ButtonPosts(ids) ==
    LET c0 == [id \in Range(ids) |-> 0]
    IN  [c0 EXCEPT ![ids[1]] = SmallBlind, ![ids[IF Len(ids) = 2 THEN 2 ELSE 3]] = BigBlind]

initContributions(ids) ==
    LET c0 == [id \in Range(ids) |-> 0]
        c1 == [c0 EXCEPT ![ids[2]] = SmallBlind]
        c2 == [c1 EXCEPT ![ids[IF 2 > Len(ids) - 1 THEN 1 ELSE 3]] = BigBlind]
    IN  IF Len(ids) = 2
        THEN [c2 EXCEPT ![ids[1]] = SmallBlind, ![ids[2]] = BigBlind]
        ELSE c2

(* InitState whose closing player is the first preflop actor, not the last *)
InitState_FirstCloses(ids) ==
    [ currentStreet   |-> "preflop",
      streets         |-> emptyStreets,
      currentActorIdx |-> 0,
      foldedIds       |-> {},
      allInIds        |-> {},
      currentBet      |-> BigBlind,
      contributions   |-> initContributions(ids),
      pot             |-> SmallBlind + BigBlind,
      phase           |-> "hole-cards",
      holeCards       |-> FALSE,
      showdownQueue   |-> <<>>,
      showdownRecords |-> <<>>,
      winnerId        |-> Null,
      closingPlayerId |-> buildPreflopOrder(ids, 0)[1] ]

InitState(ids) ==
    [ currentStreet   |-> "preflop",
      streets         |-> emptyStreets,
      currentActorIdx |-> 0,
      foldedIds       |-> {},
      allInIds        |-> {},
      currentBet      |-> BigBlind,
      contributions   |-> initContributions(ids),
      pot             |-> SmallBlind + BigBlind,
      phase           |-> "hole-cards",
      holeCards       |-> FALSE,
      showdownQueue   |-> <<>>,
      showdownRecords |-> <<>>,
      winnerId        |-> Null,
      closingPlayerId |-> Last(buildPreflopOrder(ids, 0)) ]

NoProbe ==
    [ids |-> <<>>, straddle |-> 0, folded |-> {}, allIn |-> {},
     pre |-> <<>>, post |-> <<>>, dyn |-> <<>>, built |-> FALSE]

InitHand(seatCounts, stacks) ==
    /\ playerIds \in {Ids(k) : k \in seatCounts}
    /\ stack \in stacks
    /\ state = InitState(playerIds)
    /\ history = <<>>
    /\ preflopOrder = buildPreflopOrder(playerIds, 0)
    /\ currentStraddle = 0

Init == InitHand(MinSeats..MaxSeats, {StackSize}) /\ probe = NoProbe

----------------------------------------------------------------------------
(* Derived values of the hook *)

(* activeOrder that filters the folded seats only *)
activeOrder_FoldedOnly(s, order) ==
    IF s.currentStreet = "preflop"
    THEN SelectSeq(order, LAMBDA id : id \notin s.foldedIds)
    ELSE buildPostflopOrder(playerIds, s.foldedIds, {})

activeOrder(s, order) ==
    IF s.currentStreet = "preflop"
    THEN SelectSeq(order, LAMBDA id : id \notin s.foldedIds /\ id \notin s.allInIds)
    ELSE buildPostflopOrder(playerIds, s.foldedIds, s.allInIds)

currentActorId(s, order) == At(activeOrder(s, order), s.currentActorIdx)

callAmount(s, playerId) == Max(0, s.currentBet - s.contributions[playerId])

actorId == currentActorId(state, preflopOrder)

toCall == IF actorId # Null THEN callAmount(state, actorId) ELSE 0

----------------------------------------------------------------------------
(* Street end *)

NotFolded(folded) == SelectSeq(playerIds, LAMBDA id : id \notin folded)

(* resolveStreetEnd whose fold-win test is off by one *)
resolveStreetEnd_OffByOne(newState, currentStreet) ==
    LET activePlayers == NotFolded(newState.foldedIds)
        nextStreetIdx == IndexOf(STREETS, currentStreet) + 1
    IN  IF Len(activePlayers) < 1
        THEN [newState EXCEPT !.phase = "winner",
                              !.showdownQueue = <<>>,
                              !.showdownRecords = <<>>]
        ELSE IF nextStreetIdx >= Len(STREETS)
        THEN [newState EXCEPT !.phase = "showdown",
                              !.showdownQueue =
                                  buildShowdownQueue(newState.streets, playerIds,
                                                     newState.foldedIds),
                              !.showdownRecords = <<>>]
        ELSE [newState EXCEPT !.phase = "board-input",
                              !.currentStreet = At(STREETS, nextStreetIdx),
                              !.currentActorIdx = 0,
                              !.currentBet = 0,
                              !.contributions = [id \in Range(playerIds) |-> 0],
                              !.closingPlayerId = Null]

(* resolveStreetEnd that keeps the acting index across the street boundary *)
resolveStreetEnd_KeepsIndex(newState, currentStreet) ==
    LET activePlayers == NotFolded(newState.foldedIds)
        nextStreetIdx == IndexOf(STREETS, currentStreet) + 1
    IN  IF Len(activePlayers) <= 1
        THEN [newState EXCEPT !.phase = "winner",
                              !.showdownQueue = <<>>,
                              !.showdownRecords = <<>>]
        ELSE IF nextStreetIdx >= Len(STREETS)
        THEN [newState EXCEPT !.phase = "showdown",
                              !.showdownQueue =
                                  buildShowdownQueue(newState.streets, playerIds,
                                                     newState.foldedIds),
                              !.showdownRecords = <<>>]
        ELSE [newState EXCEPT !.phase = "board-input",
                              !.currentStreet = At(STREETS, nextStreetIdx),
                              !.currentBet = 0,
                              !.contributions = [id \in Range(playerIds) |-> 0],
                              !.closingPlayerId = Null]

(* resolveStreetEnd that goes to the showdown one street early *)
resolveStreetEnd_ShowdownAfterTurn(newState, currentStreet) ==
    LET activePlayers == NotFolded(newState.foldedIds)
        nextStreetIdx == IndexOf(STREETS, currentStreet) + 1
    IN  IF Len(activePlayers) <= 1
        THEN [newState EXCEPT !.phase = "winner",
                              !.showdownQueue = <<>>,
                              !.showdownRecords = <<>>]
        ELSE IF nextStreetIdx >= Len(STREETS) - 1
        THEN [newState EXCEPT !.phase = "showdown",
                              !.showdownQueue =
                                  buildShowdownQueue(newState.streets, playerIds,
                                                     newState.foldedIds),
                              !.showdownRecords = <<>>]
        ELSE [newState EXCEPT !.phase = "board-input",
                              !.currentStreet = At(STREETS, nextStreetIdx),
                              !.currentActorIdx = 0,
                              !.currentBet = 0,
                              !.contributions = [id \in Range(playerIds) |-> 0],
                              !.closingPlayerId = Null]

resolveStreetEnd(newState, currentStreet) ==
    LET activePlayers == NotFolded(newState.foldedIds)
        nextStreetIdx == IndexOf(STREETS, currentStreet) + 1
    IN  IF Len(activePlayers) <= 1
        THEN [newState EXCEPT !.phase = "winner",
                              !.showdownQueue = <<>>,
                              !.showdownRecords = <<>>]
        ELSE IF nextStreetIdx >= Len(STREETS)
        THEN [newState EXCEPT !.phase = "showdown",
                              !.showdownQueue =
                                  buildShowdownQueue(newState.streets, playerIds,
                                                     newState.foldedIds),
                              !.showdownRecords = <<>>]
        ELSE [newState EXCEPT !.phase = "board-input",
                              !.currentStreet = At(STREETS, nextStreetIdx),
                              !.currentActorIdx = 0,
                              !.currentBet = 0,
                              !.contributions = [id \in Range(playerIds) |-> 0],
                              !.closingPlayerId = Null]

----------------------------------------------------------------------------
(* commitAction: the ledger *)

allinTotal(prev, actor, amount) ==
    LET playerStack == stack
        fallback == IF playerStack > 0 THEN playerStack ELSE prev.currentBet
    IN  IF amount # NoAmount /\ amount > 0 THEN amount ELSE fallback

betTotal(prev, amount) == IF amount # NoAmount THEN amount ELSE prev.currentBet

newFoldedOf(prev, actor, type) ==
    IF type = "fold" THEN prev.foldedIds \cup {actor} ELSE prev.foldedIds

newAllInOf(prev, actor, type) ==
    IF type = "allin" THEN prev.allInIds \cup {actor} ELSE prev.allInIds

(* newContributionsOf that takes the folder's chips off the table *)
newContributionsOf_FoldRefunds(prev, actor, type, amount) ==
    CASE type = "call" -> [prev.contributions EXCEPT ![actor] = prev.currentBet]
      [] type \in {"bet", "raise"} ->
            [prev.contributions EXCEPT ![actor] = betTotal(prev, amount)]
      [] type = "allin" ->
            [prev.contributions EXCEPT ![actor] = allinTotal(prev, actor, amount)]
      [] type = "fold" -> [prev.contributions EXCEPT ![actor] = 0]
      [] OTHER -> prev.contributions

newContributionsOf(prev, actor, type, amount) ==
    CASE type = "call" -> [prev.contributions EXCEPT ![actor] = prev.currentBet]
      [] type \in {"bet", "raise"} ->
            [prev.contributions EXCEPT ![actor] = betTotal(prev, amount)]
      [] type = "allin" ->
            [prev.contributions EXCEPT ![actor] = allinTotal(prev, actor, amount)]
      [] OTHER -> prev.contributions

newBetOf(prev, actor, type, amount) ==
    CASE type \in {"bet", "raise"} -> betTotal(prev, amount)
      [] type = "allin" ->
            IF allinTotal(prev, actor, amount) > prev.currentBet
            THEN allinTotal(prev, actor, amount)
            ELSE prev.currentBet
      [] OTHER -> prev.currentBet

(* newPotOf whose call pays the whole bet level instead of the difference *)
newPotOf_CallPaysBet(prev, actor, type, amount) ==
    CASE type = "call" -> prev.pot + prev.currentBet
      [] type \in {"bet", "raise"} ->
            prev.pot + (betTotal(prev, amount) - prev.contributions[actor])
      [] type = "allin" ->
            prev.pot + Max(0, allinTotal(prev, actor, amount) - prev.contributions[actor])
      [] OTHER -> prev.pot

newPotOf(prev, actor, type, amount) ==
    CASE type = "call" -> prev.pot + callAmount(prev, actor)
      [] type \in {"bet", "raise"} ->
            prev.pot + (betTotal(prev, amount) - prev.contributions[actor])
      [] type = "allin" ->
            prev.pot + Max(0, allinTotal(prev, actor, amount) - prev.contributions[actor])
      [] OTHER -> prev.pot

----------------------------------------------------------------------------
(* commitAction: next actor, closing player, street end *)

newOrderOf(prev, newFolded, newAllIn) ==
    IF prev.currentStreet = "preflop"
    THEN SelectSeq(preflopOrder, LAMBDA id : id \notin newFolded /\ id \notin newAllIn)
    ELSE buildPostflopOrder(playerIds, newFolded, newAllIn)

(* newActorIdxOf that does not wrap the index after a fold or an all-in *)
newActorIdxOf_NoWrap(prev, type, newOrder) ==
    IF type \in {"fold", "allin"}
    THEN prev.currentActorIdx
    ELSE (prev.currentActorIdx + 1) % Max(Len(newOrder), 1)

(* newActorIdxOf that advances the index after a fold or an all-in as well *)
newActorIdxOf_AlwaysAdvance(prev, type, newOrder) ==
    (prev.currentActorIdx + 1) % Max(Len(newOrder), 1)

newActorIdxOf(prev, type, newOrder) ==
    IF type \in {"fold", "allin"}
    THEN IF Len(newOrder) > 0 THEN prev.currentActorIdx % Len(newOrder) ELSE 0
    ELSE (prev.currentActorIdx + 1) % Max(Len(newOrder), 1)

(* newClosingPlayerIdOf that takes the last of the new order after every *)
(* bet, raise or all-in                                                  *)
newClosingPlayerIdOf_LastOfOrder(prev, order, newOrder, actor, type) ==
    IF IsAggressive(type)
    THEN Last(newOrder)
    ELSE IF type = "fold" /\ prev.closingPlayerId # Null
    THEN IF ~Includes(newOrder, prev.closingPlayerId)
         THEN Last(newOrder)
         ELSE prev.closingPlayerId
    ELSE prev.closingPlayerId

(* newClosingPlayerIdOf that hands a folded closing player's role to the *)
(* first of the new order                                                *)
newClosingPlayerIdOf_FirstOfOrder(prev, order, newOrder, actor, type) ==
    IF IsAggressive(type)
    THEN LET betterIdx == IndexOf(newOrder, actor) IN
         IF betterIdx >= 0
         THEN At(newOrder, (betterIdx - 1 + Len(newOrder)) % Len(newOrder))
         ELSE LET actorInPrevIdx == IndexOf(order, actor) IN
              IF actorInPrevIdx >= 0 /\ Len(order) > 1
              THEN LET candidate ==
                           At(order, (actorInPrevIdx - 1 + Len(order)) % Len(order))
                   IN  IF candidate # Null /\ Includes(newOrder, candidate)
                       THEN candidate
                       ELSE Last(newOrder)
              ELSE Last(newOrder)
    ELSE IF type = "fold" /\ prev.closingPlayerId # Null
              /\ ~Includes(newOrder, prev.closingPlayerId)
         THEN At(newOrder, 0)
         ELSE prev.closingPlayerId

newClosingPlayerIdOf(prev, order, newOrder, actor, type) ==
    IF IsAggressive(type)
    THEN LET betterIdx == IndexOf(newOrder, actor) IN
         IF betterIdx >= 0
         THEN At(newOrder, (betterIdx - 1 + Len(newOrder)) % Len(newOrder))
         ELSE LET actorInPrevIdx == IndexOf(order, actor) IN
              IF actorInPrevIdx >= 0 /\ Len(order) > 1
              THEN LET candidate ==
                           At(order, (actorInPrevIdx - 1 + Len(order)) % Len(order))
                   IN  IF candidate # Null /\ Includes(newOrder, candidate)
                       THEN candidate
                       ELSE Last(newOrder)
              ELSE Last(newOrder)
    ELSE IF type = "fold" /\ prev.closingPlayerId # Null
              /\ ~Includes(newOrder, prev.closingPlayerId)
         THEN Last(newOrder)
         ELSE prev.closingPlayerId

allSquaredOf(activePlayers, newAllIn, newContributions, newBet) ==
    \A k \in 1..Len(activePlayers) :
        activePlayers[k] \in newAllIn \/ newContributions[activePlayers[k]] >= newBet

(* streetOverOf that ends the street on position alone, without checking *)
(* that the contributions are level                                     *)
streetOverOf_PositionOnly(prev, actor, type, newFolded, newAllIn, newContributions, newBet, newOrder, newClosingPlayerId) ==
    LET activePlayers == NotFolded(newFolded)
        rawIdx == IF type \in {"fold", "allin"}
                  THEN prev.currentActorIdx
                  ELSE prev.currentActorIdx + 1
        lappedEnd == rawIdx >= Len(newOrder)
        actionablePlayers == SelectSeq(activePlayers, LAMBDA id : id \notin newAllIn)
    IN  IF Len(activePlayers) <= 1 THEN TRUE
        ELSE IF Len(actionablePlayers) = 0 THEN TRUE
        ELSE IF newBet = 0 THEN lappedEnd
        ELSE IF type \in {"bet", "raise"}
        THEN LET actorNewIdx == IndexOf(newOrder, actor)
                 afterBetRaw == IF actorNewIdx >= 0 THEN actorNewIdx + 1 ELSE Len(newOrder)
             IN  afterBetRaw >= Len(newOrder)
        ELSE IF type = "allin" THEN Len(newOrder) = 0
        ELSE IF newClosingPlayerId # Null
        THEN LET closingPlayerFolded ==
                     type = "fold" /\ prev.closingPlayerId # newClosingPlayerId
             IN  IF closingPlayerFolded
                 THEN lappedEnd
                 ELSE actor = newClosingPlayerId
        ELSE lappedEnd

(* streetOverOf that closes an unbet street one seat before the lap is done *)
streetOverOf_EarlyLap(prev, actor, type, newFolded, newAllIn, newContributions, newBet, newOrder, newClosingPlayerId) ==
    LET activePlayers == NotFolded(newFolded)
        rawIdx == IF type \in {"fold", "allin"}
                  THEN prev.currentActorIdx
                  ELSE prev.currentActorIdx + 1
        lappedEnd == rawIdx >= Len(newOrder)
        allSquared == allSquaredOf(activePlayers, newAllIn, newContributions, newBet)
        actionablePlayers == SelectSeq(activePlayers, LAMBDA id : id \notin newAllIn)
    IN  IF Len(activePlayers) <= 1 THEN TRUE
        ELSE IF Len(actionablePlayers) = 0 THEN TRUE
        ELSE IF newBet = 0 THEN rawIdx + 1 >= Len(newOrder)
        ELSE IF type \in {"bet", "raise"}
        THEN LET actorNewIdx == IndexOf(newOrder, actor)
                 afterBetRaw == IF actorNewIdx >= 0 THEN actorNewIdx + 1 ELSE Len(newOrder)
             IN  afterBetRaw >= Len(newOrder) /\ allSquared
        ELSE IF type = "allin" THEN Len(newOrder) = 0
        ELSE IF newClosingPlayerId # Null
        THEN LET closingPlayerFolded ==
                     type = "fold" /\ prev.closingPlayerId # newClosingPlayerId
             IN  IF closingPlayerFolded
                 THEN lappedEnd /\ allSquared
                 ELSE actor = newClosingPlayerId /\ allSquared
        ELSE lappedEnd /\ allSquared

(* streetOverOf that never closes the street on an all-in *)
streetOverOf_AllInKeepsOpen(prev, actor, type, newFolded, newAllIn, newContributions, newBet, newOrder, newClosingPlayerId) ==
    LET activePlayers == NotFolded(newFolded)
        rawIdx == IF type \in {"fold", "allin"}
                  THEN prev.currentActorIdx
                  ELSE prev.currentActorIdx + 1
        lappedEnd == rawIdx >= Len(newOrder)
        allSquared == allSquaredOf(activePlayers, newAllIn, newContributions, newBet)
    IN  IF Len(activePlayers) <= 1 THEN TRUE
        ELSE IF newBet = 0 THEN lappedEnd
        ELSE IF type \in {"bet", "raise"}
        THEN LET actorNewIdx == IndexOf(newOrder, actor)
                 afterBetRaw == IF actorNewIdx >= 0 THEN actorNewIdx + 1 ELSE Len(newOrder)
             IN  afterBetRaw >= Len(newOrder) /\ allSquared
        ELSE IF type = "allin" THEN FALSE
        ELSE IF newClosingPlayerId # Null
        THEN LET closingPlayerFolded ==
                     type = "fold" /\ prev.closingPlayerId # newClosingPlayerId
             IN  IF closingPlayerFolded
                 THEN lappedEnd /\ allSquared
                 ELSE actor = newClosingPlayerId /\ allSquared
        ELSE lappedEnd /\ allSquared

streetOverOf(prev, actor, type, newFolded, newAllIn, newContributions, newBet, newOrder, newClosingPlayerId) ==
    LET activePlayers == NotFolded(newFolded)
        rawIdx == IF type \in {"fold", "allin"}
                  THEN prev.currentActorIdx
                  ELSE prev.currentActorIdx + 1
        lappedEnd == rawIdx >= Len(newOrder)
        allSquared == allSquaredOf(activePlayers, newAllIn, newContributions, newBet)
        actionablePlayers == SelectSeq(activePlayers, LAMBDA id : id \notin newAllIn)
    IN  IF Len(activePlayers) <= 1 THEN TRUE
        ELSE IF Len(actionablePlayers) = 0 THEN TRUE
        ELSE IF newBet = 0 THEN lappedEnd
        ELSE IF type \in {"bet", "raise"}
        THEN LET actorNewIdx == IndexOf(newOrder, actor)
                 afterBetRaw == IF actorNewIdx >= 0 THEN actorNewIdx + 1 ELSE Len(newOrder)
             IN  afterBetRaw >= Len(newOrder) /\ allSquared
        ELSE IF type = "allin" THEN Len(newOrder) = 0
        ELSE IF newClosingPlayerId # Null
        THEN LET closingPlayerFolded ==
                     type = "fold" /\ prev.closingPlayerId # newClosingPlayerId
             IN  IF closingPlayerFolded
                 THEN lappedEnd /\ allSquared
                 ELSE actor = newClosingPlayerId /\ allSquared
        ELSE lappedEnd /\ allSquared

Recorded(actor, type, amount) == [playerId |-> actor, type |-> type, amount |-> amount]

(* The state a fold, check, call, bet, raise or all-in of `actor` builds   *)
(* before the street-end decision is applied (`newState`), and the        *)
(* decision itself (`streetOver`)                                         *)
actionOutcome(prev, actor, type, amount) ==
        LET order == activeOrder(prev, preflopOrder)
            newStreets == [prev.streets EXCEPT ![prev.currentStreet] =
                               Append(@, Recorded(actor, type, amount))]
            newFolded == newFoldedOf(prev, actor, type)
            newAllIn == newAllInOf(prev, actor, type)
            newContributions == newContributionsOf(prev, actor, type, amount)
            newBet == newBetOf(prev, actor, type, amount)
            newPot == newPotOf(prev, actor, type, amount)
            newOrder == newOrderOf(prev, newFolded, newAllIn)
            newActorIdx == newActorIdxOf(prev, type, newOrder)
            newClosingPlayerId == newClosingPlayerIdOf(prev, order, newOrder, actor, type)
            streetOver == streetOverOf(prev, actor, type, newFolded, newAllIn,
                                       newContributions, newBet, newOrder,
                                       newClosingPlayerId)
            newState == [prev EXCEPT !.streets = newStreets,
                                     !.foldedIds = newFolded,
                                     !.allInIds = newAllIn,
                                     !.contributions = newContributions,
                                     !.currentBet = newBet,
                                     !.pot = newPot,
                                     !.currentActorIdx = newActorIdx,
                                     !.closingPlayerId = newClosingPlayerId,
                                     !.phase = "action"]
        IN  [newState |-> newState, streetOver |-> streetOver]

(* The state updater of a fold, check, call, bet, raise or all-in *)
actionUpdater(prev, type, amount) ==
    LET order == activeOrder(prev, preflopOrder)
        actor == At(order, prev.currentActorIdx)
    IN  IF actor = Null THEN prev
        ELSE LET out == actionOutcome(prev, actor, type, amount) IN
             IF out.streetOver
             THEN resolveStreetEnd(out.newState, prev.currentStreet)
             ELSE out.newState

----------------------------------------------------------------------------
(* commitAction('straddle') *)

(* straddleOrder that leaves the straddler at the head of the order *)
straddleOrder_KeepsOrder(order, actor) == order

straddleOrder(order, actor) ==
    LET actorInPreflopIdx == IndexOf(order, actor) IN
    IF actorInPreflopIdx >= 0
    THEN Slice(order, actorInPreflopIdx + 1, Len(order))
            \o Slice(order, 0, actorInPreflopIdx) \o <<actor>>
    ELSE order

straddleUpdater(prev, straddleAmount) ==
    LET order == activeOrder(prev, preflopOrder)
        actor == At(order, prev.currentActorIdx)
    IN  IF actor = Null THEN prev
        ELSE
        LET prevContrib == prev.contributions[actor]
            added == straddleAmount - prevContrib
            newOrder == straddleOrder(preflopOrder, actor)
            newActiveOrder ==
                SelectSeq(newOrder,
                          LAMBDA id : id \notin prev.foldedIds /\ id \notin prev.allInIds)
        IN  [prev EXCEPT !.streets["preflop"] =
                             Append(@, Recorded(actor, "straddle", straddleAmount)),
                         !.contributions[actor] = straddleAmount,
                         !.currentBet = straddleAmount,
                         !.pot = prev.pot + (IF added > 0 THEN added ELSE 0),
                         !.currentActorIdx = 0,
                         !.closingPlayerId = Last(newActiveOrder),
                         !.phase = "action"]

----------------------------------------------------------------------------
(* The exported callbacks *)

commitAction(type, amount) ==
    /\ probe' = probe /\ playerIds' = playerIds /\ stack' = stack
    /\ history' = Append(history, state)
    /\ IF type = "straddle"
       THEN LET straddleAmount == state.currentBet * 2
                actor == currentActorId(state, preflopOrder)
            IN  /\ state' = straddleUpdater(state, straddleAmount)
                /\ IF actor = Null
                   THEN UNCHANGED <<preflopOrder, currentStraddle>>
                   ELSE /\ currentStraddle' = straddleAmount
                        /\ preflopOrder' = straddleOrder(preflopOrder, actor)
       ELSE /\ state' = actionUpdater(state, type, amount)
            /\ UNCHANGED <<preflopOrder, currentStraddle>>

confirmHoleCards ==
    /\ history' = Append(history, state)
    /\ state' = [state EXCEPT !.holeCards = TRUE, !.phase = "action"]
    /\ UNCHANGED <<playerIds, stack, preflopOrder, currentStraddle, probe>>

(* confirmBoard that skips the street only when nobody at all can act *)
confirmBoard_NobodyLeft ==
    /\ history' = Append(history, state)
    /\ LET actionable == SelectSeq(playerIds,
                LAMBDA id : id \notin state.foldedIds /\ id \notin state.allInIds)
       IN  state' = IF Len(actionable) = 0
                    THEN resolveStreetEnd([state EXCEPT !.phase = "action"],
                                          state.currentStreet)
                    ELSE [state EXCEPT !.phase = "action"]
    /\ UNCHANGED <<playerIds, stack, preflopOrder, currentStraddle, probe>>

(* confirmBoard that always opens the betting round *)
confirmBoard_AlwaysAction ==
    /\ history' = Append(history, state)
    /\ state' = [state EXCEPT !.phase = "action"]
    /\ UNCHANGED <<playerIds, stack, preflopOrder, currentStraddle, probe>>

confirmBoard ==
    /\ history' = Append(history, state)
    /\ LET actionable == SelectSeq(playerIds,
                LAMBDA id : id \notin state.foldedIds /\ id \notin state.allInIds)
       IN  state' = IF Len(actionable) <= 1
                    THEN resolveStreetEnd([state EXCEPT !.phase = "action"],
                                          state.currentStreet)
                    ELSE [state EXCEPT !.phase = "action"]
    /\ UNCHANGED <<playerIds, stack, preflopOrder, currentStraddle, probe>>

(* commitShowdown that moves on to the winner while one player is still queued *)
commitShowdown_WinnerEarly(record) ==
    /\ history' = Append(history, state)
    /\ LET newRecords == Append(state.showdownRecords, record)
           newQueue == Slice(state.showdownQueue, 1, Len(state.showdownQueue))
       IN  state' = IF Len(newQueue) <= 1
                    THEN [state EXCEPT !.showdownRecords = newRecords,
                                       !.showdownQueue = <<>>,
                                       !.phase = "winner"]
                    ELSE [state EXCEPT !.showdownRecords = newRecords,
                                       !.showdownQueue = newQueue]
    /\ UNCHANGED <<playerIds, stack, preflopOrder, currentStraddle, probe>>

commitShowdown(record) ==
    /\ history' = Append(history, state)
    /\ LET newRecords == Append(state.showdownRecords, record)
           newQueue == Slice(state.showdownQueue, 1, Len(state.showdownQueue))
       IN  state' = IF Len(newQueue) = 0
                    THEN [state EXCEPT !.showdownRecords = newRecords,
                                       !.showdownQueue = <<>>,
                                       !.phase = "winner"]
                    ELSE [state EXCEPT !.showdownRecords = newRecords,
                                       !.showdownQueue = newQueue]
    /\ UNCHANGED <<playerIds, stack, preflopOrder, currentStraddle, probe>>

confirmWinner(winnerId) ==
    /\ history' = Append(history, state)
    /\ state' = [state EXCEPT !.winnerId = winnerId, !.phase = "done"]
    /\ UNCHANGED <<playerIds, stack, preflopOrder, currentStraddle, probe>>

(* goBackOf that rolls back everything but the pot *)
goBackOf_KeepsPot(s, h) ==
    IF Len(h) = 0
    THEN [state |-> s, history |-> h]
    ELSE [state |-> [h[Len(h)] EXCEPT !.pot = s.pot],
          history |-> Slice(h, 0, Len(h) - 1)]

(* What goBack makes of a live state s and a history h *)
(* goBackOf that makes the top snapshot live but leaves it on the stack *)
goBackOf_Peek(s, h) ==
    IF Len(h) = 0
    THEN [state |-> s, history |-> h]
    ELSE [state |-> h[Len(h)], history |-> h]

goBackOf(s, h) ==
    IF Len(h) = 0
    THEN [state |-> s, history |-> h]
    ELSE [state |-> h[Len(h)], history |-> Slice(h, 0, Len(h) - 1)]

goBack ==
    /\ state' = goBackOf(state, history).state
    /\ history' = goBackOf(state, history).history
    /\ UNCHANGED <<playerIds, stack, preflopOrder, currentStraddle, probe>>

canGoBack == Len(history) > 0

canStraddle ==
    LET preflopActions == state.streets["preflop"]
        hasNonStraddleAction ==
            \E k \in 1..Len(preflopActions) : preflopActions[k].type # "straddle"
        currentActorInOrder == At(activeOrder(state, preflopOrder), state.currentActorIdx)
        straddleCount ==
            Len(SelectSeq(preflopActions, LAMBDA a : a.type = "straddle"))
    IN  IF state.currentStreet # "preflop" THEN FALSE
        ELSE IF state.phase # "action" THEN FALSE
        ELSE IF Len(playerIds) < 4 THEN FALSE
        ELSE IF hasNonStraddleAction THEN FALSE
        ELSE IF currentActorInOrder = Null THEN FALSE
        ELSE IF straddleCount = 0 THEN currentActorInOrder = At(playerIds, 3)
        ELSE state.currentActorIdx = 0

----------------------------------------------------------------------------
(* The caller: the action panel offers an action only while an actor is    *)
(* defined (ActionPanel: `if (!actorPlayer)`), CHECK only when toCall = 0, *)
(* CALL only when toCall > 0, BET or RAISE by currentBet, any positive     *)
(* amount from the numpad, STRADDLE only when canStraddle, and the back    *)
(* button only when canGoBack.  Each confirm call is issued in its phase.  *)

AllActions(s) ==
    s.streets["preflop"] \o s.streets["flop"] \o s.streets["turn"] \o s.streets["river"]

AggrCount(s) ==
    Len(SelectSeq(AllActions(s), LAMBDA a : a.type \in {"bet", "raise", "allin", "straddle"}))

CanAct == state.phase = "action" /\ actorId # Null

Fold == CanAct /\ commitAction("fold", NoAmount)

Check == CanAct /\ toCall = 0 /\ commitAction("check", NoAmount)

Call == CanAct /\ toCall > 0 /\ commitAction("call", NoAmount)

BetOrRaise ==
    /\ CanAct
    /\ AggrCount(state) < MaxAggr
    /\ \E a \in Amounts :
          commitAction(IF state.currentBet > 0 THEN "raise" ELSE "bet", a)

AllIn ==
    /\ CanAct
    /\ AggrCount(state) < MaxAggr
    /\ \E a \in AllInAmounts : commitAction("allin", a)

Straddle ==
    /\ canStraddle
    /\ AggrCount(state) < MaxAggr
    /\ commitAction("straddle", NoAmount)

HoleCards == state.phase = "hole-cards" /\ confirmHoleCards

Board == state.phase = "board-input" /\ confirmBoard

Showdown ==
    /\ state.phase = "showdown"
    /\ \E a \in {"show", "muck"} :
          commitShowdown([playerId |-> At(state.showdownQueue, 0), action |-> a])

Winner ==
    /\ state.phase = "winner"
    /\ \E w \in Range(NotFolded(state.foldedIds)) : confirmWinner(w)

Back == canGoBack /\ goBack

(* A whole hand at a table of MinSeats to MaxSeats seats.  The caller never *)
(* straddles here: the straddle button needs an under-the-gun seat          *)
(* (canStraddle, StraddleSeats), see SpecStraddle.                          *)
Next ==
    \/ HoleCards
    \/ Fold
    \/ Check
    \/ Call
    \/ BetOrRaise
    \/ AllIn
    \/ Board
    \/ Showdown
    \/ Winner
    \/ Back

Spec == Init /\ [][Next]_vars

(* A table with an under-the-gun seat, where the straddle exists; the hand  *)
(* is followed for MaxCalls committed calls.                                *)

InitStraddle == InitHand({StraddleSeats}, {StackSize}) /\ probe = NoProbe

NextStraddle ==
    \/ /\ Len(history) < MaxCalls
       /\ \/ HoleCards
          \/ Fold
          \/ Check
          \/ Call
          \/ BetOrRaise
          \/ AllIn
          \/ Straddle
          \/ Board
          \/ Winner
    \/ Back

SpecStraddle == InitStraddle /\ [][NextStraddle]_vars

----------------------------------------------------------------------------
(* The callbacks as the hook exposes them: none of them looks at the       *)
(* phase, so a caller may issue any of them in any state.  The hand is     *)
(* followed for MaxApiCalls committed calls.                               *)

(* The calls the panel can make: fold, check, call, all-in and straddle    *)
(* without an amount, bet and raise with a positive one                    *)
ApiCalls ==
    {<<type, NoAmount>> : type \in {"fold", "check", "call", "allin", "straddle"}}
        \cup ({"bet", "raise"} \X (1..MaxApiAmount))

ApiCommitAction == \E c \in ApiCalls : commitAction(c[1], c[2])

ApiConfirmHoleCards == confirmHoleCards

ApiConfirmBoard == confirmBoard

ApiCommitShowdown ==
    \E id \in Range(playerIds) : \E a \in {"show", "muck"} :
       commitShowdown([playerId |-> id, action |-> a])

ApiConfirmWinner == \E w \in Range(playerIds) : confirmWinner(w)

ApiGoBack == goBack

InitApi == InitHand(MinSeats..MaxSeats, {StackSize}) /\ probe = NoProbe

NextApi ==
    \/ /\ Len(history) < MaxApiCalls
       /\ \/ ApiCommitAction
          \/ ApiConfirmHoleCards
          \/ ApiConfirmBoard
          \/ ApiCommitShowdown
          \/ ApiConfirmWinner
    \/ ApiGoBack

SpecApi == InitApi /\ [][NextApi]_vars

----------------------------------------------------------------------------
(* A hand played to its end: the caller keeps giving input and never goes  *)
(* back.  The bets, raises and all-ins of a hand are bounded by MaxAggr.    *)

NextLive ==
    \/ HoleCards
    \/ Fold
    \/ Check
    \/ Call
    \/ BetOrRaise
    \/ AllIn
    \/ Board
    \/ Showdown
    \/ Winner

SpecLive == Init /\ [][NextLive]_vars /\ WF_vars(NextLive)

----------------------------------------------------------------------------
(* Two commitAction calls issued from the same render: both callbacks are  *)
(* the same closure, so both push the captured state onto the history,     *)
(* while the two state updaters are queued and applied one after the other *)
(* to the latest state.                                                    *)

commitActionTwice(type1, type2) ==
    /\ state' = actionUpdater(actionUpdater(state, type1, NoAmount), type2, NoAmount)
    /\ history' = Append(Append(history, state), state)
    /\ UNCHANGED <<playerIds, stack, preflopOrder, currentStraddle, probe>>

(* The buttons the action panel shows for the rendered state *)
PanelCalls == {"fold"} \cup (IF toCall = 0 THEN {"check"} ELSE {"call"})

DoubleCommit ==
    /\ CanAct
    /\ \E type1 \in PanelCalls : \E type2 \in PanelCalls : commitActionTwice(type1, type2)

InitBatch == InitHand(MinSeats..MaxSeats, {StackSize}) /\ probe = NoProbe

NextBatch ==
    \/ /\ Len(history) < MaxBatchCalls
       /\ \/ HoleCards
          \/ Fold
          \/ Check
          \/ Call
          \/ Board
          \/ DoubleCommit
    \/ Back

SpecBatch == InitBatch /\ [][NextBatch]_vars

----------------------------------------------------------------------------
(* The order builders on their own: every table of MinSeats to             *)
(* MaxOrderSeats seats (the seat counts the setup form offers), every      *)
(* folded set, no or one all-in seat, without and with a straddle.         *)

InitOrder ==
    /\ InitHand({MinSeats}, {StackSize})
    /\ \E k \in MinSeats..MaxOrderSeats :
       \E f \in SUBSET (0..(k - 1)) :
       \E a \in {{}} \cup {{i} : i \in 0..(k - 1)} :
       \E sd \in {0, 2 * BigBlind} :
          probe = [ids |-> Ids(k), straddle |-> sd, folded |-> f, allIn |-> a,
                   pre |-> <<>>, post |-> <<>>, dyn |-> <<>>, built |-> FALSE]

BuildOrders ==
    /\ ~probe.built
    /\ probe' = [probe EXCEPT
                    !.pre = buildPreflopOrder(probe.ids, probe.straddle),
                    !.dyn = straddleOrder(buildPreflopOrder(probe.ids, 0),
                                          At(probe.ids, 3)),
                    !.post = buildPostflopOrder(probe.ids, probe.folded, probe.allIn),
                    !.built = TRUE]
    /\ UNCHANGED <<playerIds, stack, state, history, preflopOrder, currentStraddle>>

NextOrder == BuildOrders

SpecOrder == InitOrder /\ [][NextOrder]_vars

----------------------------------------------------------------------------
(* Vocabulary of the properties *)

ActionTypes == {"fold", "check", "call", "bet", "raise", "allin"}

AnyAmount == Amounts \cup {NoAmount}

(* The step is commitAction(type, amount) issued for a defined actor *)
Committed(type, amount) == CanAct /\ commitAction(type, amount)

(* The step is a call that pushes a snapshot, i.e. any call but goBack *)
ForwardStep == history' = Append(history, state)

(* The action the step has logged, and "whenever the step is a commitAction *)
(* of some kind and amount, P holds of that kind and amount"               *)
StepRecord == LET log == state'.streets[state.currentStreet] IN log[Len(log)]

OnCommit(P(_, _)) ==
    (CanAct /\ ForwardStep) =>
        LET r == StepRecord IN Committed(r.type, r.amount) => P(r.type, r.amount)

Unfolded(s) == Range(playerIds) \ s.foldedIds

Actionable(s) == Unfolded(s) \ s.allInIds

Unmatched(s) == {id \in Actionable(s) : s.contributions[id] < s.currentBet}

Top(h) == h[Len(h)]

----------------------------------------------------------------------------
(* C1: commitAction followed at once by goBack restores pot, contributions, *)
(* currentActorIdx, foldedIds, allInIds and closingPlayerId, and also phase, *)
(* currentStreet and the per-street action log, to their values before the  *)
(* action, for every action kind, also when the action ended the street or  *)
(* the hand.                                                                *)

Restored(r, s) ==
    /\ r.pot = s.pot
    /\ r.contributions = s.contributions
    /\ r.currentActorIdx = s.currentActorIdx
    /\ r.foldedIds = s.foldedIds
    /\ r.allInIds = s.allInIds
    /\ r.closingPlayerId = s.closingPlayerId
    /\ r.phase = s.phase
    /\ r.currentStreet = s.currentStreet
    /\ r.streets = s.streets

C1_RoundTrip ==
    [][OnCommit(LAMBDA ty, a :
          Restored(goBackOf(state', history').state, state))]_vars

C1_Witness ==
    /\ Len(history) > 0
    /\ Top(history).phase = "action"
    /\ state.phase # "action"
    /\ state.pot # Top(history).pot
    /\ goBackOf(state, history).state.pot = Top(history).pot

(* C2: a betting street never ends while a player who can still act has   *)
(* not matched the bet: when commitAction leaves phase 'action' for        *)
(* 'board-input' or 'showdown', no unfolded, not all-in player has a       *)
(* contribution below currentBet at that moment; and as long as such a     *)
(* player exists and two players are unfolded, phase stays 'action'.       *)

C2_NoPrematureEnd ==
    [][OnCommit(LAMBDA ty, a :
          ty # "straddle" =>
              LET ns == actionOutcome(state, actorId, ty, a).newState IN
              /\ state'.phase \in {"board-input", "showdown"} => Unmatched(ns) = {}
              /\ (Unmatched(ns) # {} /\ Cardinality(Unfolded(ns)) >= 2)
                     => state'.phase = "action")]_vars

C2_Witness ==
    /\ state.phase = "action"
    /\ state.currentStreet = "preflop"
    /\ state.allInIds # {}
    /\ Cardinality(state.foldedIds) = Len(playerIds) - 2
    /\ Cardinality(Actionable(state)) = 1
    /\ toCall > 0

(* C3: whenever an action leaves exactly one unfolded player, the result   *)
(* has phase 'winner', empty showdownQueue and showdownRecords and the     *)
(* same currentStreet; with one unfolded player no board-input or showdown *)
(* phase is entered any more.                                              *)

C3_FoldWin ==
    /\ [](Cardinality(Unfolded(state)) <= 1 =>
             /\ state.phase \in {"winner", "done"}
             /\ state.showdownQueue = <<>>
             /\ state.showdownRecords = <<>>)
    /\ [][OnCommit(LAMBDA ty, a :
             Cardinality(Unfolded(state')) = 1 =>
                 /\ state'.phase = "winner"
                 /\ state'.showdownQueue = <<>>
                 /\ state'.showdownRecords = <<>>
                 /\ state'.currentStreet = state.currentStreet)]_vars

C3_Witness ==
    /\ state.phase = "winner"
    /\ Cardinality(Unfolded(state)) = 1
    /\ state.currentStreet = "turn"
    /\ state.showdownQueue = <<>>

(* C4: every move to the next street leaves every contribution 0,          *)
(* currentBet 0, currentActorIdx 0 and closingPlayerId null, and the pot   *)
(* exactly as the street-ending action left it.                            *)

LedgerReset(s) ==
    /\ \A id \in Range(playerIds) : s.contributions[id] = 0
    /\ s.currentBet = 0
    /\ s.currentActorIdx = 0
    /\ s.closingPlayerId = Null

C4_StreetReset ==
    [][(ForwardStep /\ state'.currentStreet # state.currentStreet) =>
          /\ LedgerReset(state')
          /\ state.phase = "board-input" => state'.pot = state.pot
          /\ OnCommit(LAMBDA ty, a :
                state'.pot = actionOutcome(state, actorId, ty, a).newState.pot)]_vars

C4_Witness ==
    /\ Len(playerIds) = 3
    /\ state.phase = "board-input"
    /\ state.currentStreet = "flop"
    /\ state.streets["preflop"] =
           << Recorded(0, "raise", MaxAmount), Recorded(1, "call", NoAmount),
              Recorded(2, "call", NoAmount) >>
    /\ state.pot = 3 * MaxAmount
    /\ LedgerReset(state)

(* C5: along calls other than goBack the pot never decreases, whatever     *)
(* action kinds and amounts are committed.                                 *)

C5_PotMonotone == [][ForwardStep => state'.pot >= state.pot]_vars

(* C6: after every call, every player that is neither folded nor all-in    *)
(* has a contribution of at most currentBet.                               *)

C6_ContributionCeiling ==
    \A id \in Actionable(state) : state.contributions[id] <= state.currentBet

(* C7: in phase 'action' there is a defined current actor: currentActorIdx *)
(* is within the active order and the actor is neither folded nor all-in.  *)

C7_DefinedActor ==
    state.phase = "action" =>
        /\ state.currentActorIdx >= 0
        /\ state.currentActorIdx < Len(activeOrder(state, preflopOrder))
        /\ actorId \in Actionable(state)

C7_Witness ==
    /\ state.phase = "action"
    /\ state.currentStreet = "flop"
    /\ state.foldedIds # {}
    /\ state.currentActorIdx > 0
    /\ actorId \in Actionable(state)

(* C8: a player who has gone all-in is never again in the active order and *)
(* never the current actor, stays all-in on every later turn and street,   *)
(* and never enters the folded set.                                        *)

C8_AllInExcluded ==
    /\ [](/\ Range(activeOrder(state, preflopOrder)) \cap state.allInIds = {}
          /\ actorId \notin state.allInIds
          /\ state.foldedIds \cap state.allInIds = {})
    /\ [][ForwardStep =>
             /\ state.allInIds \subseteq state'.allInIds
             /\ (state'.foldedIds \ state.foldedIds) \cap state.allInIds = {}]_vars

C8_Witness ==
    /\ state.phase = "action"
    /\ state.currentStreet = "river"
    /\ state.allInIds # {}
    /\ Cardinality(Actionable(state)) >= 2

(* C9: for every seat count N, 2 <= N <= 9, with no folded or all-in seat,  *)
(* buildPreflopOrder without a straddle returns each seat once with the    *)
(* big blind last (2 seats: button, big blind; 3 or more: seats 3.., then  *)
(* button, small blind, big blind), and buildPostflopOrder returns each    *)
(* seat once from seat 1 upward with the button last.                      *)

IsPermutationOf(order, ids) ==
    /\ Len(order) = Len(ids)
    /\ Range(order) = Range(ids)

BigBlindSeat(ids) == IF Len(ids) = 2 THEN ids[2] ELSE ids[3]

C9_FullOrders ==
    (probe.built /\ probe.folded = {} /\ probe.allIn = {} /\ probe.straddle = 0) =>
        LET N == Len(probe.ids) IN
        /\ IsPermutationOf(probe.pre, probe.ids)
        /\ Last(probe.pre) = BigBlindSeat(probe.ids)
        /\ probe.pre = [i \in 1..N |-> IF N = 2 THEN i - 1 ELSE (i + 2) % N]
        /\ IsPermutationOf(probe.post, probe.ids)
        /\ probe.post[1] = 1
        /\ Last(probe.post) = 0
        /\ probe.post = [i \in 1..N |-> i % N]

C9_Witness ==
    /\ probe.built
    /\ Len(probe.ids) = MaxOrderSeats
    /\ probe.folded = {} /\ probe.allIn = {} /\ probe.straddle = 0
    /\ Last(probe.pre) = 2
    /\ Last(probe.post) = 0

(* C10: buildPostflopOrder(ids, folded) holds exactly the seats of ids that *)
(* are not folded, each once, in the relative order of the full postflop    *)
(* rotation (seat 1 upward, button last).                                   *)

RotationRank(seat, N) == (seat - 1 + N) % N

C10_PostflopFilter ==
    (probe.built /\ probe.allIn = {}) =>
        LET N == Len(probe.ids) IN
        /\ Range(probe.post) = Range(probe.ids) \ probe.folded
        /\ Len(probe.post) = Cardinality(Range(probe.ids) \ probe.folded)
        /\ \A i, j \in 1..Len(probe.post) :
              i < j => RotationRank(probe.post[i], N) < RotationRank(probe.post[j], N)

C10_Witness ==
    /\ probe.built
    /\ probe.allIn = {}
    /\ Len(probe.ids) = MaxOrderSeats
    /\ probe.folded = {0, 1, 4}
    /\ probe.post = <<2, 3, 5, 6, 7, 8>>

----------------------------------------------------------------------------
(* C11: when the river ends with at least two unfolded players,            *)
(* showdownQueue holds exactly the unfolded players in postflop rotation   *)
(* (ascending seat from the small blind, button last, cyclically), and its *)
(* first entry is the chronologically last player to bet, raise or go      *)
(* all-in on any of the four streets among the players still unfolded;     *)
(* without such a player the queue starts at the first unfolded seat from  *)
(* the small blind.                                                        *)

EntersShowdown ==
    /\ ForwardStep
    /\ state.phase # "showdown"
    /\ state'.phase = "showdown"

(* The aggressive actions of the hand by players unfolded in s, oldest first *)
LiveAggressions(s) ==
    SelectSeq(AllActions(s),
              LAMBDA a : a.type \in {"bet", "raise", "allin"}
                         /\ a.playerId \in Unfolded(s))

CyclicDistance(from, to) == (to - from + Len(playerIds)) % Len(playerIds)

(* q lists the seats of live once each, every entry followed by the next *)
(* live seat clockwise                                                    *)
IsRotationOf(q, live) ==
    /\ Len(q) = Cardinality(live)
    /\ Range(q) = live
    /\ \A i \in 1..(Len(q) - 1) :
          \A x \in live \ {q[i]} :
             CyclicDistance(q[i], q[i + 1]) <= CyclicDistance(q[i], x)

FirstFromSmallBlind(live) ==
    CHOOSE x \in live :
       \A y \in live : RotationRank(x, Len(playerIds)) <= RotationRank(y, Len(playerIds))

RiverAggressions(s) ==
    SelectSeq(s.streets["river"], LAMBDA a : a.type \in {"bet", "raise", "allin"})

C12_RiverCheckedThrough ==
    [][(EntersShowdown /\ RiverAggressions(state') = <<>>) =>
          /\ IsRotationOf(state'.showdownQueue, Unfolded(state'))
          /\ state'.showdownQueue[1] = FirstFromSmallBlind(Unfolded(state'))]_vars

(* C13: every commitShowdown removes exactly the head of showdownQueue,    *)
(* leaves the rest of the queue in order, and appends the record of that   *)
(* player behind the records already taken; the phase becomes 'winner'     *)
(* exactly at the commit that empties the queue and stays 'showdown'       *)
(* before.                                                                 *)

C13_ShowdownStep ==
    [][(state.phase = "showdown" /\ ForwardStep) =>
          /\ state.showdownQueue # <<>>
          /\ state'.showdownQueue = Tail(state.showdownQueue)
          /\ Len(state'.showdownRecords) = Len(state.showdownRecords) + 1
          /\ SubSeq(state'.showdownRecords, 1, Len(state.showdownRecords))
                = state.showdownRecords
          /\ Last(state'.showdownRecords).playerId = Head(state.showdownQueue)
          /\ state'.phase = IF Len(state.showdownQueue) = 1 THEN "winner"
                            ELSE "showdown"]_vars

C13_Witness ==
    /\ state.phase = "winner"
    /\ Len(state.showdownRecords) = 3
    /\ state.showdownRecords[1] = [playerId |-> 2, action |-> "muck"]
    /\ state.showdownRecords[2] = [playerId |-> 0, action |-> "show"]
    /\ state.showdownRecords[3].playerId = 1
    /\ state.showdownQueue = <<>>

(* C14: history is a stack of pre-call snapshots.  Every commitAction,     *)
(* confirmHoleCards, confirmBoard, commitShowdown and confirmWinner grows  *)
(* it by one entry equal to the state before the call; goBack pops the top *)
(* entry and makes it the live state; goBack on an empty history changes   *)
(* nothing; canGoBack holds exactly when history is non-empty; and as many *)
(* goBacks as history has entries give back the initial state with an      *)
(* empty history.                                                          *)

RECURSIVE Unwind(_, _, _)
Unwind(s, h, k) ==
    IF k = 0 THEN [state |-> s, history |-> h]
    ELSE LET r == goBackOf(s, h) IN Unwind(r.state, r.history, k - 1)

PhasesOf(h) == {h[i].phase : i \in 1..Len(h)}

C14_HistoryStack ==
    [][/\ \/ history' = Append(history, state)
          \/ /\ history # <<>>
             /\ state' = history[Len(history)]
             /\ history' = SubSeq(history, 1, Len(history) - 1)
       /\ canGoBack' <=> history' # <<>>
       /\ goBackOf(state', <<>>) = [state |-> state', history |-> <<>>]
       /\ Unwind(state', history', Len(history'))
             = [state |-> InitState(playerIds), history |-> <<>>]]_vars

C14_Witness ==
    /\ state.phase = "done"
    /\ PhasesOf(history) = {"hole-cards", "action", "board-input", "showdown", "winner"}
    /\ Len(history) >= 12
    /\ Unwind(state, history, Len(history)).state.phase = "hole-cards"

(* C15: a commitAction issued when no action is legal, that is in a phase  *)
(* other than 'action' (hole-cards, board-input, showdown, winner, done)   *)
(* or when no actor is defined, returns the state unchanged.               *)

NoLegalAction == state.phase # "action" \/ actorId = Null

C15_IllegalCommitIgnored ==
    [][\A c \in ApiCalls :
          (NoLegalAction /\ commitAction(c[1], c[2])) => state' = state]_vars

(* C16: confirmBoard called in phase 'board-input' while fewer than two    *)
(* unfolded players are not all-in goes straight to the board input of the *)
(* next street, or to the showdown when the street is the river, without   *)
(* entering phase 'action'.                                                *)

StreetAfter(street) == STREETS[IndexOf(STREETS, street) + 2]

C16_BoardShortCircuit ==
    [][(state.phase = "board-input" /\ ForwardStep
            /\ Cardinality(Actionable(state)) < 2) =>
          IF state.currentStreet = "river"
          THEN /\ state'.phase = "showdown"
               /\ state'.currentStreet = "river"
          ELSE /\ state'.phase = "board-input"
               /\ state'.currentStreet = StreetAfter(state.currentStreet)]_vars

C16_Witness ==
    /\ state.phase = "board-input"
    /\ state.currentStreet = "turn"
    /\ Len(history) > 0
    /\ Top(history).phase = "board-input"
    /\ Top(history).currentStreet = "flop"
    /\ Cardinality(Actionable(state)) = 1
    /\ Cardinality(Unfolded(state)) = 3

(* C17: after a bet or raise by X, if all the other players only call or   *)
(* fold and at least two players stay unfolded, the street ends right      *)
(* after the last of them has acted and X is not asked to act again; this  *)
(* also holds when the closing player folds at a position that is not the  *)
(* end of the rotation.  Stated on the states: while the street is open    *)
(* after such a bet or raise, the player to act is neither X nor a player  *)
(* who has already answered it.                                            *)

StreetLog(s) == s.streets[s.currentStreet]

Raises(log) == {k \in 1..Len(log) : log[k].type \in {"bet", "raise"}}

LastOf(S) == CHOOSE k \in S : \A j \in S : j <= k

(* The street's last bet or raise has been answered by calls and folds only *)
OnlyAnswered(log) ==
    /\ Raises(log) # {}
    /\ \A j \in (LastOf(Raises(log)) + 1)..Len(log) : log[j].type \in {"call", "fold"}

Answerers(log) == {log[j].playerId : j \in (LastOf(Raises(log)) + 1)..Len(log)}

LastRaiser(log) == log[LastOf(Raises(log))].playerId

C17_RaiserNotAskedAgain ==
    (/\ state.phase = "action"
     /\ OnlyAnswered(StreetLog(state))
     /\ Cardinality(Unfolded(state)) >= 2)
        => actorId \notin ({LastRaiser(StreetLog(state))} \cup Answerers(StreetLog(state)))

(* C18: after any action that does not end the street, the next actor is   *)
(* the first player after the acting player, in the cyclic order of the    *)
(* street's rotation, who is neither folded nor all-in; for check, call,   *)
(* bet and raise (the index advances) and for fold and all-in (the actor   *)
(* leaves the list and the index is kept).                                 *)

(* The street's rotation over all the seats *)
RotationOf(street, order) ==
    IF street = "preflop" THEN order
    ELSE [i \in 1..Len(playerIds) |-> i % Len(playerIds)]

PositionIn(rot, id) == CHOOSE p \in 1..Len(rot) : rot[p] = id

(* The first seat of live after seat id, going round rot *)
NextLiveAfter(rot, id, live) ==
    LET N == Len(rot)
        p == PositionIn(rot, id)
        seatAt(d) == rot[((p - 1 + d) % N) + 1]
        steps == {d \in 1..N : seatAt(d) \in live}
    IN  IF steps = {} THEN Null
        ELSE seatAt(CHOOSE d \in steps : \A e \in steps : d <= e)

StreetStaysOpen ==
    /\ CanAct
    /\ ForwardStep
    /\ state'.phase = "action"
    /\ state'.currentStreet = state.currentStreet

C18_NextActor ==
    [][StreetStaysOpen =>
          actorId' = NextLiveAfter(RotationOf(state.currentStreet, preflopOrder'),
                                   actorId, Actionable(state'))]_vars

C18_Witness ==
    /\ state.phase = "action"
    /\ state.currentStreet = "flop"
    /\ Len(playerIds) = 3
    /\ Len(StreetLog(state)) = 2
    /\ StreetLog(state)[1] = [playerId |-> 1, type |-> "bet", amount |-> 2]
    /\ StreetLog(state)[2].type = "fold"
    /\ StreetLog(state)[2].playerId = 2
    /\ actorId = 0

(* C19: on the preflop without a straddle, as long as the big blind is     *)
(* neither folded nor all-in and at least two players are unfolded, the    *)
(* street does not end before the big blind has acted once.                *)

PreflopEnds ==
    /\ CanAct
    /\ ForwardStep
    /\ state.currentStreet = "preflop"
    /\ ~(state'.phase = "action" /\ state'.currentStreet = "preflop")

HasActed(s, street, id) ==
    \E k \in 1..Len(s.streets[street]) : s.streets[street][k].playerId = id

C19_BigBlindOption ==
    [][(/\ PreflopEnds
        /\ currentStraddle = 0
        /\ BigBlindSeat(playerIds) \in Actionable(state')
        /\ Cardinality(Unfolded(state')) >= 2)
          => HasActed(state', "preflop", BigBlindSeat(playerIds))]_vars

C19_Witness ==
    /\ state.phase = "board-input"
    /\ state.currentStreet = "flop"
    /\ Len(playerIds) = 3
    /\ state.foldedIds = {}
    /\ state.allInIds = {}
    /\ Len(state.streets["preflop"]) = 3
    /\ state.streets["preflop"][3] = [playerId |-> 2, type |-> "check", amount |-> 0]

(* C20: after a bet or raise by X that does not end the street,            *)
(* closingPlayerId is the cyclic predecessor of X among the players able   *)
(* to act after the action; after an all-in by X it is the cyclic          *)
(* predecessor of X among the players able to act before the action,       *)
(* provided that player can still act after it.                            *)

(* The last seat of live before seat id, going round rot backwards *)
PrevLiveBefore(rot, id, live) ==
    LET N == Len(rot)
        p == PositionIn(rot, id)
        seatAt(d) == rot[((p - 1 - d + N) % N) + 1]
        steps == {d \in 1..N : seatAt(d) \in live}
    IN  IF steps = {} THEN Null
        ELSE seatAt(CHOOSE d \in steps : \A e \in steps : d <= e)

----------------------------------------------------------------------------
(* C21: a fold by a player other than the closing player leaves            *)
(* closingPlayerId unchanged; a fold by the closing player that ends       *)
(* neither the street nor the hand sets closingPlayerId to the last entry  *)
(* of the new active order.                                                *)

C21_FoldClosing ==
    [][OnCommit(LAMBDA ty, a :
          ty = "fold" =>
             /\ actorId # state.closingPlayerId
                   => state'.closingPlayerId = state.closingPlayerId
             /\ (actorId = state.closingPlayerId /\ StreetStaysOpen)
                   => state'.closingPlayerId
                         = Last(activeOrder(state', preflopOrder')))]_vars

C21_Witness ==
    /\ state.phase = "action"
    /\ state.currentStreet = "preflop"
    /\ Len(playerIds) = 3
    /\ Len(history) > 0
    /\ Top(history).closingPlayerId = 0
    /\ Top(history).foldedIds = {}
    /\ state.foldedIds = {0}
    /\ state.closingPlayerId = 2
    /\ Last(StreetLog(state)).type = "fold"

(* C22: on a street where currentBet stays 0 the street ends exactly when  *)
(* every player of the rotation has acted once (checked or folded) and not *)
(* earlier: the phase stays 'action' until the last player of the rotation *)
(* has acted, then the next street or the showdown follows.                *)

(* The step is a check or a fold on a street without a bet *)
UnbetStep ==
    /\ CanAct
    /\ ForwardStep
    /\ state.currentBet = 0
    /\ StepRecord.type \in {"check", "fold"}

Actors(log) == {log[k].playerId : k \in 1..Len(log)}

ActedOnceEach(log) == \A i, j \in 1..Len(log) : log[i].playerId = log[j].playerId => i = j

(* What an unbet step must do: nobody acts twice, and the street closes, *)
(* into the next board input or the showdown, exactly when nobody able   *)
(* to act is left who has not acted                                      *)
LapDecides ==
    LET log == state'.streets[state.currentStreet]
        closed == ~StreetStaysOpen
    IN  /\ ActedOnceEach(log)
        /\ closed <=> Actionable(state') \subseteq Actors(log)
        /\ closed => IF state.currentStreet = "river"
                     THEN state'.phase = "showdown"
                     ELSE /\ state'.phase = "board-input"
                          /\ state'.currentStreet = StreetAfter(state.currentStreet)

(* The statement as it stands, for every check or fold *)
C22_UnbetLap == [][UnbetStep => LapDecides]_vars

(* C22, amended: the same for every check or fold that leaves at least two *)
(* players unfolded; a fold that leaves one player ends the hand at once   *)
(* (phase 'winner'), whoever has not acted yet.                            *)
C22_UnbetLapContested ==
    [][(UnbetStep /\ Cardinality(Unfolded(state')) >= 2) => LapDecides]_vars

C22_Witness ==
    /\ state.phase = "board-input"
    /\ state.currentStreet = "turn"
    /\ Len(playerIds) = 3
    /\ state.allInIds = {}
    /\ Len(state.streets["flop"]) = 3
    /\ state.streets["flop"][1] = [playerId |-> 1, type |-> "check", amount |-> 0]
    /\ state.streets["flop"][2] = [playerId |-> 2, type |-> "fold", amount |-> 0]
    /\ state.streets["flop"][3] = [playerId |-> 0, type |-> "check", amount |-> 0]

(* C23: whenever, after an action, at least two players are unfolded and   *)
(* every unfolded player is all-in, the street ends immediately: the       *)
(* resulting phase is not 'action', and no betting action is requested for *)
(* the rest of the hand.  Stated on the states: while two or more players  *)
(* are unfolded and all of them are all-in, the phase is never 'action'.   *)

EveryoneAllIn(s) == Cardinality(Unfolded(s)) >= 2 /\ Actionable(s) = {}

C23_AllInRunout == EveryoneAllIn(state) => state.phase # "action"

C23_Witness ==
    /\ state.phase = "board-input"
    /\ state.currentStreet = "river"
    /\ Len(playerIds) = 3
    /\ state.foldedIds = {1}
    /\ state.allInIds = {0, 2}
    /\ Last(state.streets["preflop"]).type = "fold"
    /\ state.streets["flop"] = <<>>
    /\ state.streets["turn"] = <<>>

(* C24: whenever the phase becomes 'showdown', currentStreet is the river  *)
(* and showdownQueue contains every unfolded player exactly once, the      *)
(* all-in players included, and no folded player, not even one who was the *)
(* last to bet or raise.                                                   *)

C24_ShowdownMembers ==
    [][EntersShowdown =>
          LET q == state'.showdownQueue IN
          /\ state'.currentStreet = "river"
          /\ \A id \in Unfolded(state') :
                Cardinality({k \in 1..Len(q) : q[k] = id}) = 1
          /\ state'.allInIds \ state'.foldedIds \subseteq Range(q)
          /\ Range(q) \cap state'.foldedIds = {}
          /\ Range(q) \subseteq Range(playerIds)]_vars

C24_Witness ==
    /\ state.phase = "showdown"
    /\ state.showdownRecords = <<>>
    /\ state.currentStreet = "river"
    /\ state.allInIds = {0}
    /\ state.foldedIds = {1}
    /\ state.showdownQueue = <<0, 2>>
    /\ Len(state.streets["flop"]) > 0
    /\ state.streets["flop"][1].type = "bet"
    /\ state.streets["flop"][1].playerId = 1

(* C25: the ledger update of commitAction matches the specified transition *)
(* function for every action kind: call sets the actor's contribution to   *)
(* currentBet and adds currentBet minus the previous contribution to the   *)
(* pot; bet/raise to target T sets the contribution to T and adds T minus  *)
(* the previous contribution; allin uses the given amount if positive,     *)
(* otherwise the actor's stack, otherwise currentBet, with the same        *)
(* accounting; straddle raises to twice currentBet with the same           *)
(* accounting.                                                             *)

(* The target the specified function gives an action of the actor *)
TargetOf(ty, a) ==
    CASE ty = "call" -> state.currentBet
      [] ty \in {"bet", "raise"} -> a
      [] ty = "allin" -> IF a > 0 THEN a
                         ELSE IF stack > 0 THEN stack ELSE state.currentBet
      [] ty = "straddle" -> 2 * state.currentBet
      [] OTHER -> state.contributions[actorId]

(* The contribution is visible while the street stays open; the street end *)
(* clears the contributions, the pot is kept                               *)
ContributionBecomes(target) ==
    StreetStaysOpen =>
        state'.contributions = [state.contributions EXCEPT ![actorId] = target]

C25_LedgerAsSpecified ==
    [][OnCommit(LAMBDA ty, a :
          /\ ContributionBecomes(TargetOf(ty, a))
          /\ state'.pot = state.pot + (TargetOf(ty, a) - state.contributions[actorId]))]_vars

(* C26: within one street currentBet never decreases: after a bet, raise   *)
(* or all-in to target T the new currentBet is the maximum of the old      *)
(* currentBet and T, for every amount T.                                   *)

C26_BetNeverDrops ==
    [][OnCommit(LAMBDA ty, a :
          StreetStaysOpen =>
             /\ state'.currentBet >= state.currentBet
             /\ ty \in {"bet", "raise", "allin"}
                   => state'.currentBet = Max(state.currentBet, TargetOf(ty, a)))]_vars

(* C27: the initial state has the blinds posted: pot is smallBlind +       *)
(* bigBlind, the small-blind seat's contribution is smallBlind (the        *)
(* button's at a 2-seat table), the big-blind seat's contribution is       *)
(* bigBlind, all other contributions are 0, currentBet is bigBlind,        *)
(* closingPlayerId is the big blind, currentActorIdx is 0, history is      *)
(* empty and the phase is 'hole-cards'.                                    *)

SmallBlindSeat == IF Len(playerIds) = 2 THEN 0 ELSE 1

C27_InitialState ==
    history = <<>> =>
        /\ state.pot = SmallBlind + BigBlind
        /\ state.contributions =
              [id \in Range(playerIds) |->
                  IF id = SmallBlindSeat THEN SmallBlind
                  ELSE IF id = SmallBlindSeat + 1 THEN BigBlind
                  ELSE 0]
        /\ state.currentBet = BigBlind
        /\ state.closingPlayerId = SmallBlindSeat + 1
        /\ state.currentActorIdx = 0
        /\ state.phase = "hole-cards"

C27_Witness ==
    /\ history = <<>>
    /\ Len(playerIds) = 3
    /\ state.contributions[0] = 0
    /\ state.contributions[1] = SmallBlind
    /\ state.contributions[2] = BigBlind
    /\ state.closingPlayerId = 2

(* C28: when the first player to act preflop straddles, the preflop order  *)
(* becomes the rotation that starts with the player right after the        *)
(* straddler and ends with the straddler, the acting index becomes 0,      *)
(* closingPlayerId becomes the straddler, and the street does not end      *)
(* before the straddler has acted again; every further straddle by the new *)
(* first actor re-derives the order the same way.                          *)

StraddleStep ==
    /\ CanAct
    /\ ForwardStep
    /\ StepRecord.type = "straddle"
    /\ Len(state'.streets["preflop"]) = Len(state.streets["preflop"]) + 1

Straddles(log) == {k \in 1..Len(log) : log[k].type = "straddle"}

(* The player of the log's last straddle has an action after it *)
StraddlerActedAgain(log) ==
    \E j \in (LastOf(Straddles(log)) + 1)..Len(log) :
       log[j].playerId = log[LastOf(Straddles(log))].playerId

StraddleRederives ==
    StraddleStep =>
        /\ actorId = Head(preflopOrder)
        /\ preflopOrder' = Tail(preflopOrder) \o <<actorId>>
        /\ state'.currentActorIdx = 0
        /\ state'.closingPlayerId = actorId
        /\ state'.phase = "action"
        /\ state'.currentStreet = "preflop"

(* The statement as it stands, for every end of a straddled preflop *)
C28_StraddleOption ==
    [][/\ StraddleRederives
       /\ (PreflopEnds /\ Straddles(state'.streets["preflop"]) # {})
             => StraddlerActedAgain(state'.streets["preflop"])]_vars

(* C28, amended: the same, the straddler's option being kept as long as at *)
(* least two players are unfolded; when every other player folds, the      *)
(* hand ends (phase 'winner') without the straddler acting again.          *)
C28_StraddleOptionContested ==
    [][/\ StraddleRederives
       /\ (/\ PreflopEnds
           /\ Straddles(state'.streets["preflop"]) # {}
           /\ Cardinality(Unfolded(state')) >= 2)
             => StraddlerActedAgain(state'.streets["preflop"])]_vars

C28_Witness ==
    /\ state.phase = "board-input"
    /\ state.currentStreet = "flop"
    /\ preflopOrder = <<0, 1, 2, 3>>
    /\ currentStraddle = 2 * BigBlind
    /\ state.foldedIds = {}
    /\ Len(state.streets["preflop"]) = 5
    /\ state.streets["preflop"][1] = [playerId |-> 3, type |-> "straddle", amount |-> 2 * BigBlind]
    /\ state.streets["preflop"][5] = [playerId |-> 3, type |-> "check", amount |-> 0]

(* C29: at every table of 4 or more seats, the preflop order that a        *)
(* straddle of the under-the-gun seat (seat 3) derives from the            *)
(* no-straddle order equals buildPreflopOrder with a positive straddle,    *)
(* i.e. seats 4 and up, button, small blind, big blind, then seat 3 last;  *)
(* at 3 seats a positive straddle argument leaves the order unchanged.     *)

StraddleAllowed ==
    /\ state.currentStreet = "preflop"
    /\ state.phase = "action"
    /\ Len(playerIds) >= 4
    /\ \A k \in 1..Len(state.streets["preflop"]) :
          state.streets["preflop"][k].type = "straddle"
    /\ actorId # Null
    /\ state.currentActorIdx = 0

CanStraddleOnlyWhenAllowed == canStraddle => StraddleAllowed

C30_StraddleGuarded ==
    [][/\ CanStraddleOnlyWhenAllowed
       /\ (~StraddleAllowed /\ commitAction("straddle", NoAmount)) => state' = state]_vars

(* C31: without goBack the hand only moves forward: currentStreet changes  *)
(* only by one step in the order preflop, flop, turn, river; phase         *)
(* 'showdown' is entered only from the river, 'winner' only from a         *)
(* fold-win or an emptied showdown queue, 'done' only from 'winner'; no    *)
(* call other than goBack moves the street or the phase backwards.         *)

StreetRank(street) == IndexOf(STREETS, street)

PhaseRank(phase) ==
    CASE phase \in {"hole-cards", "board-input"} -> 0
      [] phase = "action" -> 1
      [] phase = "showdown" -> 2
      [] phase = "winner" -> 3
      [] phase = "done" -> 4

(* Position of a state in the course of a hand: the street first, then the phase *)
Progress(s) == StreetRank(s.currentStreet) * 5 + PhaseRank(s.phase)

FoldWin ==
    /\ state.phase = "action"
    /\ StepRecord.type = "fold"
    /\ Cardinality(Unfolded(state')) = 1

----------------------------------------------------------------------------
(* C32: a fold adds the actor to foldedIds and has no financial effect: pot *)
(* and currentBet are unchanged and, unless the fold ends the street, every *)
(* contribution (the folder's included) is unchanged; a check changes       *)
(* neither pot, currentBet, contributions, foldedIds nor allInIds.          *)

FoldEffect ==
    /\ state'.foldedIds = state.foldedIds \cup {actorId}
    /\ state'.allInIds = state.allInIds
    /\ state'.pot = state.pot

CheckEffect ==
    /\ state'.foldedIds = state.foldedIds
    /\ state'.allInIds = state.allInIds
    /\ state'.pot = state.pot

BetLevelKept == state'.currentBet = state.currentBet

ContributionsKept == state'.contributions = state.contributions

----------------------------------------------------------------------------
(* C33: chip conservation.  When every bet, raise and all-in target of the *)
(* hand exceeded the bet level it met, pot equals the pot at the start of  *)
(* the current street plus the sum over all players, folded and all-in     *)
(* included, of their contributions on the current street; on preflop the  *)
(* start value is 0 and the blinds count as contributions.                 *)

RECURSIVE SumOver(_, _)
SumOver(f, S) ==
    IF S = {} THEN 0
    ELSE LET x == CHOOSE y \in S : TRUE IN f[x] + SumOver(f, S \ {x})

(* The states the hand went through, oldest first, the present one last *)
Course == Append(history, state)

(* The step from state s to state t committed a bet, raise or all-in whose *)
(* target did not exceed the bet level of s                                *)
LowTarget(s, t) ==
    LET before == s.streets[s.currentStreet]
        after == t.streets[s.currentStreet]
    IN  /\ Len(after) = Len(before) + 1
        /\ LET r == after[Len(after)] IN
           \/ r.type \in {"bet", "raise"} /\ betTotal(s, r.amount) <= s.currentBet
           \/ r.type = "allin" /\ allinTotal(s, r.playerId, r.amount) <= s.currentBet

EveryTargetRaises ==
    \A k \in 1..Len(history) : ~LowTarget(Course[k], Course[k + 1])

StreetStartPot ==
    IF state.currentStreet = "preflop" THEN 0
    ELSE LET first == CHOOSE k \in 1..Len(Course) :
                         /\ Course[k].currentStreet = state.currentStreet
                         /\ \A j \in 1..(k - 1) :
                               Course[j].currentStreet # state.currentStreet
         IN  Course[first].pot

StreetContributions == SumOver(state.contributions, Range(playerIds))

C33_ChipConservation ==
    EveryTargetRaises => state.pot = StreetStartPot + StreetContributions

C33_Witness ==
    /\ EveryTargetRaises
    /\ state.currentStreet = "flop"
    /\ state.phase = "action"
    /\ Len(playerIds) = 3
    /\ state.foldedIds # {}
    /\ state.allInIds # {}
    /\ StreetStartPot = 6
    /\ StreetContributions = 5
    /\ state.pot = 11
    /\ \E id \in state.foldedIds : state.contributions[id] > 0

----------------------------------------------------------------------------
(* C34: an all-in whose total does not exceed currentBet does not reopen   *)
(* the betting: a player who has matched currentBet since the last         *)
(* increase of the bet level is not asked to act again on that street      *)
(* unless a later action raises currentBet.                                *)

(* The steps of the course taken on the present street *)
StreetSteps ==
    {k \in 1..Len(history) : /\ Course[k].currentStreet = state.currentStreet
                             /\ Course[k + 1].currentStreet = state.currentStreet
                             /\ Len(StreetLog(Course[k + 1])) = Len(StreetLog(Course[k])) + 1}

StepAction(k) == LET log == StreetLog(Course[k + 1]) IN log[Len(log)]

BetLevelSteps == {k \in StreetSteps : Course[k + 1].currentBet # Course[k].currentBet}

(* The steps since the bet level was last set, that step included *)
SinceLevelSet ==
    IF BetLevelSteps = {} THEN StreetSteps
    ELSE {k \in StreetSteps : k >= LastOf(BetLevelSteps)}

ShortAllInSince ==
    \E k \in SinceLevelSet : /\ StepAction(k).type = "allin"
                             /\ Course[k + 1].currentBet = Course[k].currentBet

(* The players who acted since the level was set and stand at the level *)
MatchedSince ==
    {StepAction(k).playerId : k \in SinceLevelSet} \cap
        {id \in Range(playerIds) : state.contributions[id] = state.currentBet}

C34_ShortAllInKeepsClosed ==
    (state.phase = "action" /\ ShortAllInSince) => actorId \notin MatchedSince

----------------------------------------------------------------------------
(* C35: undoing a straddle restores the turn order: after a                *)
(* commitAction('straddle') followed by goBack, the current actor, the     *)
(* preflop acting order, canStraddle and currentStraddle are the same as   *)
(* before the straddle.                                                    *)

(* The preflop order and the straddle amount that the straddles recorded   *)
(* in the first n entries of a preflop log produce                         *)
RECURSIVE OrderAfter(_, _)
OrderAfter(log, n) ==
    IF n = 0 THEN buildPreflopOrder(playerIds, 0)
    ELSE IF log[n].type = "straddle"
         THEN straddleOrder(OrderAfter(log, n - 1), log[n].playerId)
         ELSE OrderAfter(log, n - 1)

StraddleRecords(log) == {k \in 1..Len(log) : log[k].type = "straddle"}

StraddleAfter(log) ==
    IF StraddleRecords(log) = {} THEN 0 ELSE log[LastOf(StraddleRecords(log))].amount

(* The order and the straddle kept beside the state agree with its log *)
OrderAgrees(s, order, straddle) ==
    /\ order = OrderAfter(s.streets["preflop"], Len(s.streets["preflop"]))
    /\ straddle = StraddleAfter(s.streets["preflop"])

(* The step is a goBack that undoes a straddle *)
UndoesStraddle ==
    /\ history # <<>>
    /\ state' = Top(history)
    /\ history' = SubSeq(history, 1, Len(history) - 1)
    /\ Len(state.streets["preflop"]) = Len(state'.streets["preflop"]) + 1
    /\ Last(state.streets["preflop"]).type = "straddle"

C35_StraddleUndone ==
    [][(UndoesStraddle /\ OrderAgrees(state, preflopOrder, currentStraddle)) =>
          /\ OrderAgrees(state', preflopOrder', currentStraddle')
          /\ actorId' = At(activeOrder(state',
                                       OrderAfter(state'.streets["preflop"],
                                                  Len(state'.streets["preflop"]))),
                           state'.currentActorIdx)
          /\ canStraddle']_vars

----------------------------------------------------------------------------
(* C36: if two committing calls are issued back to back before the hook    *)
(* re-renders, the history still records one distinct pre-call snapshot    *)
(* per applied transition: consecutive snapshots differ, and each is one   *)
(* recorded action at most behind the next, so that every goBack undoes    *)
(* exactly one transition and no intermediate state is lost or duplicated. *)

LogSize(s) == Len(AllActions(s))

C36_OneSnapshotPerTransition ==
    \A k \in 1..Len(history) :
       /\ Course[k] # Course[k + 1]
       /\ LogSize(Course[k + 1]) <= LogSize(Course[k]) + 1

----------------------------------------------------------------------------
(* C37: a commitAction that is a no-op because no current actor is defined *)
(* does not grow the history: the history and canGoBack are as before, so  *)
(* the next goBack undoes the last effective transition instead of         *)
(* restoring an identical state.                                           *)

C37_NoOpKeepsHistory ==
    [][\A c \in ApiCalls :
          (actorId = Null /\ commitAction(c[1], c[2])) =>
             /\ state' = state
             /\ history' = history
             /\ canGoBack' = canGoBack
             /\ goBackOf(state', history').state = goBackOf(state, history).state]_vars

----------------------------------------------------------------------------
(* C38: confirmHoleCards, confirmBoard, commitShowdown and confirmWinner   *)
(* take effect only in phases 'hole-cards', 'board-input', 'showdown' and  *)
(* 'winner' respectively; called in any other phase they leave the state   *)
(* unchanged, so that winnerId is non-null only when phase is 'done'.      *)

C38_ConfirmsGuarded ==
    [][/\ (state.phase # "hole-cards" /\ ApiConfirmHoleCards) => state' = state
       /\ (state.phase # "board-input" /\ ApiConfirmBoard) => state' = state
       /\ (state.phase # "showdown" /\ ApiCommitShowdown) => state' = state
       /\ (state.phase # "winner" /\ ApiConfirmWinner) => state' = state
       /\ state'.winnerId # Null => state'.phase = "done"]_vars

----------------------------------------------------------------------------
(* C39: every hand terminates: with the bets, raises, all-ins and          *)
(* straddles bounded and no goBack, continued input leads from every       *)
(* reachable state to phase 'done'; checks, calls and folds can not cycle  *)
(* through the rotation forever.  Without goBack every reachable state     *)
(* lies on a hand played from its construction and 'done' accepts no       *)
(* further input, so the claim is that every such hand reaches 'done'.     *)

C39_Terminates == <>(state.phase = "done")

C39_Witness ==
    /\ state.phase = "done"
    /\ Len(playerIds) = 3
    /\ Cardinality(Unfolded(state)) = 2
    /\ \A street \in StreetSet :
          /\ Len(state.streets[street]) >= 2
          /\ \E k \in 1..Len(state.streets[street]) :
                state.streets[street][k].type \in {"check", "call"}
    /\ Len(history) >= 16

====
